---- MODULE Spec2Model ----
(***************************************************************************)
(* A model of lib/vsc/utils/rest.py: Client (the transport executor),      *)
(* RequestBuilder (the path accumulator) and RestClient (the facade).      *)
(*                                                                         *)
(* Python text is a sequence of one-character strings; a Python value is a *)
(* tagged record ([t |-> "str", s |-> <<"a">>], [t |-> "none"], ...), each *)
(* type with a field of its own for what it holds; a dict is the sequence  *)
(* of its <<key, value>> pairs in insertion order.                         *)
(***************************************************************************)
EXTENDS Integers, Sequences, FiniteSets, TLC

\* ------------------------------------------------------------------ text

\* The printable ASCII characters, code 32 first (code 96 is spelled out:
\* the lexer has no literal for it).
Ascii ==
  <<" ", "!", "\"", "#", "$", "%", "&", "'", "(", ")", "*", "+", ",", "-", ".", "/",
    "0", "1", "2", "3", "4", "5", "6", "7", "8", "9", ":", ";", "<", "=", ">", "?",
    "@", "A", "B", "C", "D", "E", "F", "G", "H", "I", "J", "K", "L", "M", "N", "O",
    "P", "Q", "R", "S", "T", "U", "V", "W", "X", "Y", "Z", "[", "\\", "]", "^", "_",
    "grave", "a", "b", "c", "d", "e", "f", "g", "h", "i", "j", "k", "l", "m", "n", "o",
    "p", "q", "r", "s", "t", "u", "v", "w", "x", "y", "z", "{", "|", "}", "~">>

Ord(c) == 31 + (CHOOSE i \in 1..Len(Ascii) : Ascii[i] = c)

Chr(n) == Ascii[n - 31]

IsLowerChar(c) == Ord(c) >= 97 /\ Ord(c) <= 122

IsDigitChar(c) == Ord(c) >= 48 /\ Ord(c) <= 57

IsAlnumChar(c) ==
  \/ IsDigitChar(c)
  \/ IsLowerChar(c)
  \/ (Ord(c) >= 65 /\ Ord(c) <= 90)

UpperChar(c) == IF IsLowerChar(c) THEN Chr(Ord(c) - 32) ELSE c

\* str.upper()
Upper(s) == [i \in 1..Len(s) |-> UpperChar(s[i])]

\* [x for x in key if x.islower()], as its truth value
HasLower(s) == \E i \in 1..Len(s) : IsLowerChar(s[i])

\* str.endswith / str.startswith with a one-character argument
EndsWithSlash(s) == Len(s) > 0 /\ s[Len(s)] = "/"

StartsWithSlash(s) == Len(s) > 0 /\ s[1] = "/"

RECURSIVE StripLeft(_)
StripLeft(s) ==
  IF Len(s) > 0 /\ s[1] = " " THEN StripLeft(Tail(s)) ELSE s

RECURSIVE StripRight(_)
StripRight(s) ==
  IF Len(s) > 0 /\ s[Len(s)] = " "
  THEN StripRight(SubSeq(s, 1, Len(s) - 1))
  ELSE s

\* bytes.strip() / str.strip(), for the blank
Strip(s) == StripRight(StripLeft(s))

\* The decimal text of a natural number: str(n)
RECURSIVE Digits(_)
Digits(n) ==
  IF n < 10 THEN <<Chr(48 + n)>> ELSE Digits(n \div 10) \o <<Chr(48 + (n % 10))>>

\* ---------------------------------------------------------------- values

NoneV == [t |-> "none"]

StrV(s) == [t |-> "str", s |-> s]

IntV(n) == [t |-> "int", n |-> n]

BoolV(b) == [t |-> "bool", b |-> b]

DictV(pairs) == [t |-> "dict", d |-> pairs]

ListV(items) == [t |-> "list", l |-> items]

IsNone(x) == x.t = "none"

\* str(x) and the f-string formatting of x
PyStr(x) ==
  CASE x.t = "str" -> x.s
    [] x.t = "none" -> <<"N", "o", "n", "e">>
    [] x.t = "int" -> Digits(x.n)
    [] x.t = "bool" -> IF x.b THEN <<"T", "r", "u", "e">> ELSE <<"F", "a", "l", "s", "e">>
    [] OTHER -> <<"?">>

\* Python truthiness: `not x` is ~Truthy(x)
Truthy(x) ==
  CASE x.t = "none" -> FALSE
    [] x.t = "str" -> Len(x.s) > 0
    [] x.t = "int" -> x.n # 0
    [] x.t = "bool" -> x.b
    [] x.t = "dict" -> Len(x.d) > 0
    [] x.t = "list" -> Len(x.l) > 0

\* dict: key in d, d[key], d[key] = value (insertion order kept)
DictHas(pairs, k) == \E i \in 1..Len(pairs) : pairs[i][1] = k

DictGet(pairs, k) == pairs[CHOOSE i \in 1..Len(pairs) : pairs[i][1] = k][2]

DictSet(pairs, k, val) ==
  IF DictHas(pairs, k)
  THEN [i \in 1..Len(pairs) |-> IF pairs[i][1] = k THEN <<k, val>> ELSE pairs[i]]
  ELSE Append(pairs, <<k, val>>)

DictKeys(pairs) == {pairs[i][1] : i \in 1..Len(pairs)}

\* ------------------------------------------------------- library codecs

\* str.encode('utf-8') of ASCII text: one byte per character
Utf8Encode(s) == [i \in 1..Len(s) |-> Ord(s[i])]

\* bytes.decode('utf-8'): ASCII bytes decode to their characters; a byte of
\* 128 or more that starts no valid sequence raises UnicodeDecodeError (the
\* response bytes of the model hold no multi-byte sequence).
Utf8Decode(b) ==
  IF \A i \in 1..Len(b) : b[i] >= 32 /\ b[i] < 127
  THEN [ok |-> TRUE, text |-> [i \in 1..Len(b) |-> Chr(b[i])]]
  ELSE [ok |-> FALSE, text |-> <<>>]

B64Chars ==
  <<"A", "B", "C", "D", "E", "F", "G", "H", "I", "J", "K", "L", "M", "N", "O", "P",
    "Q", "R", "S", "T", "U", "V", "W", "X", "Y", "Z", "a", "b", "c", "d", "e", "f",
    "g", "h", "i", "j", "k", "l", "m", "n", "o", "p", "q", "r", "s", "t", "u", "v",
    "w", "x", "y", "z", "0", "1", "2", "3", "4", "5", "6", "7", "8", "9", "+", "/">>

\* base64.b64encode over a sequence of bytes
RECURSIVE B64Encode(_)
B64Encode(b) ==
  IF Len(b) = 0 THEN <<>>
  ELSE IF Len(b) = 1 THEN
    <<B64Chars[(b[1] \div 4) + 1], B64Chars[((b[1] % 4) * 16) + 1], "=", "=">>
  ELSE IF Len(b) = 2 THEN
    <<B64Chars[(b[1] \div 4) + 1],
      B64Chars[((b[1] % 4) * 16 + (b[2] \div 16)) + 1],
      B64Chars[((b[2] % 16) * 4) + 1], "=">>
  ELSE
    <<B64Chars[(b[1] \div 4) + 1],
      B64Chars[((b[1] % 4) * 16 + (b[2] \div 16)) + 1],
      B64Chars[((b[2] % 16) * 4 + (b[3] \div 64)) + 1],
      B64Chars[(b[3] % 64) + 1]>> \o B64Encode(SubSeq(b, 4, Len(b)))

HexChars ==
  <<"0", "1", "2", "3", "4", "5", "6", "7", "8", "9", "A", "B", "C", "D", "E", "F">>

\* urllib.parse.quote_plus of one character
QuotePlusChar(c) ==
  IF IsAlnumChar(c) \/ c \in {"_", ".", "-", "~"} THEN <<c>>
  ELSE IF c = " " THEN <<"+">>
  ELSE <<"%", HexChars[(Ord(c) \div 16) + 1], HexChars[(Ord(c) % 16) + 1]>>

RECURSIVE QuotePlus(_)
QuotePlus(s) ==
  IF Len(s) = 0 THEN <<>> ELSE QuotePlusChar(s[1]) \o QuotePlus(Tail(s))

\* urllib.parse.urlencode of a dict of text to text
RECURSIVE LibUrlencode(_)
LibUrlencode(pairs) ==
  IF Len(pairs) = 0 THEN <<>>
  ELSE QuotePlus(pairs[1][1]) \o <<"=">> \o QuotePlus(pairs[1][2])
       \o (IF Len(pairs) > 1 THEN <<"&">> \o LibUrlencode(Tail(pairs)) ELSE <<>>)

\* json.dumps escapes the quote and the backslash of a string
RECURSIVE JsonEscape(_)
JsonEscape(s) ==
  IF Len(s) = 0 THEN <<>>
  ELSE (IF s[1] \in {"\"", "\\"} THEN <<"\\", s[1]>> ELSE <<s[1]>>)
       \o JsonEscape(Tail(s))

\* json.dumps with its default separators ', ' and ': '
RECURSIVE JsonDumps(_)
RECURSIVE JsonDumpsItems(_)
RECURSIVE JsonDumpsMembers(_)
JsonDumps(x) ==
  CASE x.t = "none" -> <<"n", "u", "l", "l">>
    [] x.t = "bool" -> IF x.b THEN <<"t", "r", "u", "e">> ELSE <<"f", "a", "l", "s", "e">>
    [] x.t = "int" -> IF x.n < 0 THEN <<"-">> \o Digits(0 - x.n) ELSE Digits(x.n)
    [] x.t = "str" -> <<"\"">> \o JsonEscape(x.s) \o <<"\"">>
    [] x.t = "list" -> <<"[">> \o JsonDumpsItems(x.l) \o <<"]">>
    [] x.t = "dict" -> <<"{">> \o JsonDumpsMembers(x.d) \o <<"}">>

JsonDumpsItems(items) ==
  IF Len(items) = 0 THEN <<>>
  ELSE JsonDumps(items[1])
       \o (IF Len(items) > 1 THEN <<",", " ">> \o JsonDumpsItems(Tail(items)) ELSE <<>>)

JsonDumpsMembers(pairs) ==
  IF Len(pairs) = 0 THEN <<>>
  ELSE <<"\"">> \o JsonEscape(pairs[1][1]) \o <<"\"", ":", " ">> \o JsonDumps(pairs[1][2])
       \o (IF Len(pairs) > 1 THEN <<",", " ">> \o JsonDumpsMembers(Tail(pairs)) ELSE <<>>)

\* json.loads, by recursive descent. A parse yields [ok, v, n]: whether a
\* value was read, the value, and the index after it. Numbers are integers
\* and strings hold no escape (the response texts of the model hold no
\* fraction, exponent or backslash).
ParseFail == [ok |-> FALSE, v |-> NoneV, n |-> 0]

RECURSIVE SkipWs(_, _)
SkipWs(s, i) == IF i <= Len(s) /\ s[i] = " " THEN SkipWs(s, i + 1) ELSE i

HasAt(s, i, lit) ==
  /\ i + Len(lit) - 1 <= Len(s)
  /\ SubSeq(s, i, i + Len(lit) - 1) = lit

\* A JSON number may not begin with a superfluous zero.
RECURSIVE ParseDigits(_, _, _)
ParseDigits(s, i, acc) ==
  IF i <= Len(s) /\ IsDigitChar(s[i])
  THEN ParseDigits(s, i + 1, acc * 10 + (Ord(s[i]) - 48))
  ELSE [ok |-> TRUE, v |-> IntV(acc), n |-> i]

ParseNat(s, i) ==
  IF i > Len(s) \/ ~IsDigitChar(s[i]) THEN ParseFail
  ELSE IF s[i] = "0" THEN [ok |-> TRUE, v |-> IntV(0), n |-> i + 1]
  ELSE ParseDigits(s, i, 0)

ParseNumber(s, i) ==
  LET r == IF s[i] = "-" THEN ParseNat(s, i + 1) ELSE ParseNat(s, i)
      neg == s[i] = "-"
  IN  IF ~r.ok THEN ParseFail
      ELSE IF r.n <= Len(s) /\ s[r.n] \in {".", "e", "E"} THEN ParseFail
      ELSE [ok |-> TRUE, v |-> IntV(IF neg THEN 0 - r.v.n ELSE r.v.n), n |-> r.n]

RECURSIVE ParseString(_, _, _)
ParseString(s, i, acc) ==
  IF i > Len(s) \/ s[i] = "\\" THEN ParseFail
  ELSE IF s[i] = "\"" THEN [ok |-> TRUE, v |-> StrV(acc), n |-> i + 1]
  ELSE ParseString(s, i + 1, Append(acc, s[i]))

RECURSIVE ParseValue(_, _)
RECURSIVE ParseItems(_, _, _)
RECURSIVE ParseMembers(_, _, _)
ParseValue(s, i) ==
  IF i > Len(s) THEN ParseFail
  ELSE IF HasAt(s, i, <<"n", "u", "l", "l">>) THEN [ok |-> TRUE, v |-> NoneV, n |-> i + 4]
  ELSE IF HasAt(s, i, <<"t", "r", "u", "e">>) THEN [ok |-> TRUE, v |-> BoolV(TRUE), n |-> i + 4]
  ELSE IF HasAt(s, i, <<"f", "a", "l", "s", "e">>) THEN [ok |-> TRUE, v |-> BoolV(FALSE), n |-> i + 5]
  ELSE IF s[i] = "-" \/ IsDigitChar(s[i]) THEN ParseNumber(s, i)
  ELSE IF s[i] = "\"" THEN ParseString(s, i + 1, <<>>)
  ELSE IF s[i] = "[" THEN
    (IF SkipWs(s, i + 1) <= Len(s) /\ s[SkipWs(s, i + 1)] = "]"
     THEN [ok |-> TRUE, v |-> ListV(<<>>), n |-> SkipWs(s, i + 1) + 1]
     ELSE ParseItems(s, SkipWs(s, i + 1), <<>>))
  ELSE IF s[i] = "{" THEN
    (IF SkipWs(s, i + 1) <= Len(s) /\ s[SkipWs(s, i + 1)] = "}"
     THEN [ok |-> TRUE, v |-> DictV(<<>>), n |-> SkipWs(s, i + 1) + 1]
     ELSE ParseMembers(s, SkipWs(s, i + 1), <<>>))
  ELSE ParseFail

ParseItems(s, i, acc) ==
  LET r == ParseValue(s, i)
      j == SkipWs(s, r.n)
  IN  IF ~r.ok \/ j > Len(s) THEN ParseFail
      ELSE IF s[j] = "]" THEN [ok |-> TRUE, v |-> ListV(Append(acc, r.v)), n |-> j + 1]
      ELSE IF s[j] = "," THEN ParseItems(s, SkipWs(s, j + 1), Append(acc, r.v))
      ELSE ParseFail

ParseMembers(s, i, acc) ==
  LET k == IF i <= Len(s) /\ s[i] = "\"" THEN ParseString(s, i + 1, <<>>) ELSE ParseFail
      c == SkipWs(s, k.n)
      r == ParseValue(s, SkipWs(s, c + 1))
      j == SkipWs(s, r.n)
  IN  IF ~k.ok \/ c > Len(s) \/ s[c] # ":" THEN ParseFail
      ELSE IF ~r.ok \/ j > Len(s) THEN ParseFail
      ELSE IF s[j] = "}" THEN [ok |-> TRUE, v |-> DictV(DictSet(acc, k.v.s, r.v)), n |-> j + 1]
      ELSE IF s[j] = "," THEN ParseMembers(s, SkipWs(s, j + 1), DictSet(acc, k.v.s, r.v))
      ELSE ParseFail

\* json.loads(text): [ok |-> FALSE] stands for the ValueError it raises
JsonLoads(s) ==
  LET r == ParseValue(s, SkipWs(s, 1))
  IN  IF r.ok /\ SkipWs(s, r.n) > Len(s)
      THEN [ok |-> TRUE, v |-> r.v]
      ELSE [ok |-> FALSE, v |-> NoneV]

\* len(x): [ok |-> FALSE] stands for the TypeError of a value with no length
PyLen(x) ==
  CASE x.t = "str" -> [ok |-> TRUE, n |-> Len(x.s)]
    [] x.t = "list" -> [ok |-> TRUE, n |-> Len(x.l)]
    [] x.t = "dict" -> [ok |-> TRUE, n |-> Len(x.d)]
    [] x.t = "headers" -> [ok |-> TRUE, n |-> Len(x.h)]
    [] OTHER -> [ok |-> FALSE, n |-> 0]

\* ------------------------------------------------------------- Client

CENSORED_MESSAGE == <<"<", "a", "c", "t", "u", "a", "l", " ", "s", "e", "c", "r", "e", "t", " ", "c", "e", "n", "s", "o", "r", "e", "d", ">">>

DELETE == <<"D", "E", "L", "E", "T", "E">>

GET == <<"G", "E", "T">>

HEAD == <<"H", "E", "A", "D">>

PATCH == <<"P", "A", "T", "C", "H">>

POST == <<"P", "O", "S", "T">>

PUT == <<"P", "U", "T">>

HTTP_METHODS == {DELETE, GET, HEAD, PATCH, POST, PUT}

USER_AGENT == <<"v", "s", "c", "-", "r", "e", "s", "t", "-", "c", "l", "i", "e", "n", "t">>

HdrAuthorization == <<"A", "u", "t", "h", "o", "r", "i", "z", "a", "t", "i", "o", "n">>

HdrXAuthToken == <<"X", "-", "A", "u", "t", "h", "-", "T", "o", "k", "e", "n">>

HdrContentType == <<"C", "o", "n", "t", "e", "n", "t", "-", "T", "y", "p", "e">>

HdrUserAgent == <<"U", "s", "e", "r", "-", "A", "g", "e", "n", "t">>

KeyPassword == <<"p", "a", "s", "s", "w", "o", "r", "d">>

ApplicationJson == <<"a", "p", "p", "l", "i", "c", "a", "t", "i", "o", "n", "/", "j", "s", "o", "n">>

\* A Client object; made is FALSE where no object was constructed.
NoClient ==
  [made |-> FALSE, url |-> <<>>, username |-> NoneV, auth_header |-> NoneV,
   user_agent |-> <<>>, append_slash |-> FALSE]

\* Client.hash_pass(password, username) on a client whose self.username is
\* selfUsername; the result is text.
HashPass(selfUsername, password, username) ==
  LET user == IF ~Truthy(username) THEN selfUsername ELSE username
      credentials == PyStr(user) \o <<":">> \o PyStr(password)
      encoded_credentials == Strip(B64Encode(Utf8Encode(credentials)))
  IN  <<"B", "a", "s", "i", "c", " ">> \o encoded_credentials

\* Whether Client.__init__ raises TypeError for these credentials.
InitRaises(username, password, token) ==
  /\ ~IsNone(username)
  /\ \/ IsNone(password) /\ IsNone(token)
     \/ ~IsNone(password) /\ ~IsNone(token)

\* The auth_header Client.__init__ derives.
InitAuthHeader(username, password, token, token_type) ==
  IF ~IsNone(password) THEN StrV(HashPass(username, password, username))
  ELSE IF ~IsNone(token) THEN StrV(token_type \o <<" ">> \o PyStr(token))
  ELSE NoneV

\* Client.__init__: [raised, self]; self is the object when none was raised.
ClientInit(url, username, password, token, token_type, user_agent, append_slash) ==
  IF InitRaises(username, password, token)
  THEN [raised |-> TRUE, self |-> NoClient]
  ELSE [raised |-> FALSE,
        self |-> [made |-> TRUE,
                  url |-> url,
                  username |-> username,
                  auth_header |-> InitAuthHeader(username, password, token, token_type),
                  user_agent |-> IF ~Truthy(user_agent) THEN USER_AGENT ELSE user_agent.s,
                  append_slash |-> append_slash]]

\* Client._append_slash_to(url)
AppendSlashTo(self, url) ==
  IF self.append_slash /\ ~EndsWithSlash(url) THEN url \o <<"/">> ELSE url

\* Client.urlencode(params), params the pairs of a dict of text
ClientUrlencode(params) ==
  IF Len(params) = 0 THEN <<>> ELSE <<"?">> \o LibUrlencode(params)

\* set(payload): [ok, keys]; ok is FALSE for the TypeError of a payload that
\* is not iterable or holds an unhashable item. The members are kept as text
\* where they are text: only those can equal a secret.
PySet(payload) ==
  CASE payload.t = "dict" -> [ok |-> TRUE, keys |-> DictKeys(payload.d)]
    [] payload.t = "str" -> [ok |-> TRUE, keys |-> {<<payload.s[i]>> : i \in 1..Len(payload.s)}]
    [] payload.t = "list" ->
         [ok |-> \A i \in 1..Len(payload.l) : payload.l[i].t \notin {"dict", "list"},
          keys |-> {payload.l[i].s : i \in {j \in 1..Len(payload.l) : payload.l[j].t = "str"}}]
    [] OTHER -> [ok |-> FALSE, keys |-> {}]

\* obj[key] = val with a text key: [ok, v]; ok is FALSE for the TypeError of
\* a list (its indices are integers), of text and of a value that takes no
\* item assignment.
PySetItem(obj, key, val) ==
  IF obj.t = "dict"
  THEN [ok |-> TRUE, v |-> DictV(DictSet(obj.d, key, val))]
  ELSE [ok |-> FALSE, v |-> obj]

\* The exceptions the except clause of censor_request swallows.
CensorCaught == {"TypeError"}

\* The loop of censor_request over the secrets found: [v, exc], the payload
\* as the loop leaves it and the exception that ended it, if one did.
RECURSIVE CensorLoop(_, _)
CensorLoop(obj, found) ==
  IF Len(found) = 0 THEN [v |-> obj, exc |-> "none"]
  ELSE LET r == PySetItem(obj, found[1], StrV(CENSORED_MESSAGE))
       IN  IF r.ok THEN CensorLoop(r.v, Tail(found)) ELSE [v |-> obj, exc |-> "TypeError"]

\* A faulty variant of DeepCopyAliases: censor_request without the copy, so that the
\* placeholder is written into the caller's own payload.
DeepCopySkipped == TRUE

\* Whether the censored payload is the caller's own object: copy.deepcopy
\* gives a second object, so the assignments do not reach the caller's.
DeepCopyAliases == FALSE

\* Client.censor_request(secrets, payload): [result, payload, raised], the
\* value returned, the caller's payload object after the call, and whether
\* an exception left the call.
CensorRequest(secrets, payload) ==
  LET s == PySet(payload)
      found == SelectSeq(secrets, LAMBDA k : k \in s.keys)
      loop == IF s.ok THEN CensorLoop(payload, found)
              ELSE [v |-> payload, exc |-> "TypeError"]
  IN  [result |-> loop.v,
       payload |-> IF DeepCopyAliases THEN loop.v ELSE payload,
       raised |-> loop.exc \notin (CensorCaught \cup {"none"})]

\* A faulty variant of VerbRequestArgs: the content type is handed over only with a
\* body.
VerbRequestArgsTypedByBody(self, name, url, headers, body, params) ==
  LET bodied == name \notin {<<"g", "e", "t">>, <<"h", "e", "a", "d">>}
  IN  [method |-> Upper(name),
       url |-> AppendSlashTo(self, url) \o ClientUrlencode(params),
       body |-> IF bodied THEN body ELSE NoneV,
       headers |-> headers,
       content_type |-> IF bodied /\ ~IsNone(body) THEN StrV(ApplicationJson) ELSE NoneV]

\* The arguments a verb method of Client hands to Client.request. get and
\* head take no body and hand over None, with no content type.
VerbRequestArgs(self, name, url, headers, body, params) ==
  LET target == AppendSlashTo(self, url) \o ClientUrlencode(params)
  IN  CASE name = <<"g", "e", "t">> ->
             [method |-> GET, url |-> target, body |-> NoneV, headers |-> headers,
              content_type |-> NoneV]
        [] name = <<"h", "e", "a", "d">> ->
             [method |-> HEAD, url |-> target, body |-> NoneV, headers |-> headers,
              content_type |-> NoneV]
        [] name = <<"d", "e", "l", "e", "t", "e">> ->
             [method |-> DELETE, url |-> target, body |-> body, headers |-> headers,
              content_type |-> StrV(ApplicationJson)]
        [] name = <<"p", "o", "s", "t">> ->
             [method |-> POST, url |-> target, body |-> body, headers |-> headers,
              content_type |-> StrV(ApplicationJson)]
        [] name = <<"p", "u", "t">> ->
             [method |-> PUT, url |-> target, body |-> body, headers |-> headers,
              content_type |-> StrV(ApplicationJson)]
        [] name = <<"p", "a", "t", "c", "h">> ->
             [method |-> PATCH, url |-> target, body |-> body, headers |-> headers,
              content_type |-> StrV(ApplicationJson)]

\* Client.request, lines 161-169: the headers mapping after the system's
\* entries are written into it (the caller's mapping when one was given).
MergeHeaders(self, headers, content_type) ==
  LET h0 == IF IsNone(headers) THEN <<>> ELSE headers.d
      h1 == IF ~IsNone(content_type) THEN DictSet(h0, HdrContentType, content_type) ELSE h0
      h2 == IF ~IsNone(self.auth_header)
            THEN DictSet(h1, HdrAuthorization, self.auth_header)
            ELSE h1
  IN  DictSet(h2, HdrUserAgent, StrV(self.user_agent))

\* Client.get_connection up to the Request object handed to opener.open:
\* its URL, its data and the headers added to it. (urllib's own spelling of
\* a header name inside Request is not modelled: names are as given.)
GetConnection(self, method, url, body, headers) ==
  LET sep == IF ~EndsWithSlash(self.url) /\ ~StartsWithSlash(url) THEN <<"/">> ELSE <<>>
      data == IF IsNone(body) THEN NoneV ELSE [t |-> "bytes", y |-> Utf8Encode(body.s)]
  IN  [method |-> method, full_url |-> self.url \o sep \o url, data |-> data,
       headers |-> headers]

\* A faulty variant of RequestPrep: the body is serialized after it was censored, so
\* the placeholder goes out in place of the password.
RequestPrepSendsCensored(self, method, url, body, headers, content_type) ==
  LET merged == MergeHeaders(self, headers, content_type)
      hc == CensorRequest(<<HdrAuthorization, HdrXAuthToken>>, DictV(merged))
      bc == CensorRequest(<<KeyPassword>>, body)
      body_censored == IF IsNone(body) \/ body.t = "str" THEN body ELSE bc.result
      wire_body == IF IsNone(body) \/ body.t = "str" THEN body
                   ELSE StrV(JsonDumps(body_censored))
  IN  [log |-> [method |-> method, url |-> url, body |-> body_censored,
                headers |-> hc.result],
       request |-> GetConnection(self, method, url, wire_body, hc.payload.d),
       headers |-> hc.payload.d]

\* Client.request up to get_connection: the log record of line 187, the
\* Request handed to the opener, and the headers mapping as it is left.
RequestPrep(self, method, url, body, headers, content_type) ==
  LET merged == MergeHeaders(self, headers, content_type)
      hc == CensorRequest(<<HdrAuthorization, HdrXAuthToken>>, DictV(merged))
      bc == CensorRequest(<<KeyPassword>>, body)
      body_censored == IF IsNone(body) \/ body.t = "str" THEN body ELSE bc.result
      wire_body == IF IsNone(body) \/ body.t = "str" THEN body
                   ELSE StrV(JsonDumps(bc.payload))
  IN  [log |-> [method |-> method, url |-> url, body |-> body_censored,
                headers |-> hc.result],
       request |-> GetConnection(self, method, url, wire_body, hc.payload.d),
       headers |-> hc.payload.d]

\* A faulty variant of OpenAfterWith: the connection is closed on the way out only when
\* the block returns, as with a close() after the block and no with statement.
OpenAfterWithOnError(outcome) == outcome.kind = "raise"

\* Whether the with statement of Client.request leaves the connection open:
\* its __exit__ closes the connection however the block is left.
OpenAfterWith(outcome) == FALSE

\* The block under `with ... as conn` for a response [code, headers, readable,
\* bytes]: the value returned, or the exception that leaves request().
WithBlock(method, response) ==
  IF method = HEAD
  THEN [kind |-> "return", status |-> response.code,
        pybody |-> [t |-> "headers", h |-> response.headers], exc |-> "none"]
  ELSE IF ~response.readable
  THEN [kind |-> "raise", status |-> response.code, pybody |-> NoneV, exc |-> "OSError"]
  ELSE LET body == Utf8Decode(response.bytes)
           parsed == JsonLoads(body.text)
           pybody == IF parsed.ok THEN parsed.v ELSE StrV(body.text)
       IN  IF ~body.ok
           THEN [kind |-> "raise", status |-> response.code, pybody |-> NoneV,
                 exc |-> "UnicodeDecodeError"]
           ELSE IF ~PyLen(pybody).ok
           THEN [kind |-> "raise", status |-> response.code, pybody |-> NoneV,
                 exc |-> "TypeError"]
           ELSE [kind |-> "return", status |-> response.code, pybody |-> pybody,
                 exc |-> "none"]

\* ----------------------------------------------------- RequestBuilder

\* The names getattr(self.client, key) resolves to a verb method.
ClientVerbMethods ==
  {<<"d", "e", "l", "e", "t", "e">>, <<"g", "e", "t">>, <<"h", "e", "a", "d">>, <<"p", "a", "t", "c", "h">>, <<"p", "o", "s", "t">>, <<"p", "u", "t">>}

\* The instance attributes of a RequestBuilder: attribute-style access with
\* one of these names finds the attribute and never reaches __getattr__.
BuilderFields == {<<"c", "l", "i", "e", "n", "t">>, <<"u", "r", "l">>}

\* The instance attribute of a RestClient.
FacadeFields == {<<"c", "l", "i", "e", "n", "t">>}

\* The condition of line 282.
VerbCondition(key) ==
  /\ Upper(PyStr(key)) \in HTTP_METHODS
  /\ HasLower(PyStr(key))

\* RequestBuilder.__getattr__(key) on an accumulator whose path is url:
\* a bound call, the AttributeError of getattr(self.client, key), or the
\* accumulator with the longer path.
BuilderGetattr(url, key) ==
  IF VerbCondition(key)
  THEN IF PyStr(key) \in ClientVerbMethods
       THEN [outcome |-> "bound", url |-> url, verb |-> PyStr(key)]
       ELSE [outcome |-> "AttributeError", url |-> url, verb |-> <<>>]
  ELSE [outcome |-> "builder", url |-> url \o <<"/">> \o PyStr(key), verb |-> <<>>]

\* --------------------------------------------------------------- state

VARIABLES
  clients,        \* the Client of each RestClient, by client id
  ctor,           \* the last call of the constructor and how it ended
  builders,       \* the RequestBuilder of each chain and the segments asked of it
  bound,          \* the bound call (functools.partial) each chain last yielded
  access,         \* the last chained access and what it yielded
  callerHeaders,  \* a headers mapping the caller keeps and may pass again
  pc,             \* where the one thread of control is inside a verb call
  call,           \* the verb call in progress, or the last one
  log,            \* the arguments of the debug record 'cli request'
  wire,           \* the Request last handed to the opener
  conn,           \* the connection of the call and the opener's use
  result,         \* how the last verb call ended
  cen             \* one direct use of censor_request: inputs and outcome

vars ==
  <<clients, ctor, builders, bound, access, callerHeaders, pc, call, log, wire,
    conn, result, cen>>

ClientIds == {1, 2}

Chains == {1, 2}

\* The most segments one chain accumulates.
MaxSegs == 2

NoCtor ==
  [done |-> FALSE, k |-> 0, username |-> NoneV, password |-> NoneV, token |-> NoneV,
   token_type |-> <<>>, raised |-> FALSE]

\* state: "none" (no accumulator yet), "building" (the chain's value is the
\* accumulator), "lost" (the chain's value is something else: an attribute
\* of the accumulator or of the facade, or nothing after a TypeError).
NoBuilder == [state |-> "none", client |-> 0, url |-> <<>>, segs |-> <<>>]

NoBound == [set |-> FALSE, client |-> 0, verb |-> <<>>, url |-> <<>>, segs |-> <<>>]

NoAccess ==
  [chain |-> 0, key |-> NoneV, style |-> "none", outcome |-> "none", before |-> <<>>,
   segs |-> <<>>]

NoCall ==
  [chain |-> 0, client |-> 0, name |-> <<>>, method |-> <<>>, path |-> <<>>,
   url |-> <<>>, body |-> NoneV, headersIn |-> NoneV, content_type |-> NoneV,
   segs |-> <<>>]

NoLog == [method |-> <<>>, url |-> <<>>, body |-> NoneV, headers |-> NoneV]

NoWire == [method |-> <<>>, full_url |-> <<>>, data |-> NoneV, headers |-> <<>>]

NoResponse == [code |-> 0, headers |-> <<>>, readable |-> FALSE, bytes |-> <<>>]

NoConn == [open |-> FALSE, attempts |-> 0, opener |-> "none", response |-> NoResponse]

NoResult == [kind |-> "none", status |-> 0, pybody |-> NoneV, exc |-> "none"]

NoCen ==
  [done |-> FALSE, raised |-> FALSE, secrets |-> <<>>, payload |-> NoneV,
   result |-> NoneV, after |-> NoneV]

\* ------------------------------------------------------------- actions

\* A faulty variant of RequestBuilderInit: the facade hands out one shared
\* path, so a new chain starts on what another chain has accumulated.
RequestBuilderShared(k) ==
  [state |-> "building", client |-> k,
   url |-> IF \E c \in Chains : builders[c].state = "building"
           THEN builders[CHOOSE c \in Chains : builders[c].state = "building"].url
           ELSE <<>>,
   segs |-> <<>>]

\* RequestBuilder.__init__(client): a new accumulator on client k with the
\* empty path (segs, the segments asked of it so far, is ghost state).
RequestBuilderInit(k) == [state |-> "building", client |-> k, url |-> <<>>, segs |-> <<>>]

\* RestClient(url, username, password, token, token_type, user_agent,
\* append_slash) as client k: RestClient.__init__ and Client.__init__.
Construct(k, url, username, password, token, token_type, user_agent, append_slash) ==
  /\ pc = "idle"
  /\ ~clients[k].made
  /\ LET r == ClientInit(url, username, password, token, token_type, user_agent,
                         append_slash)
     IN  /\ clients' = [clients EXCEPT ![k] = r.self]
         /\ ctor' = [done |-> TRUE, k |-> k, username |-> username,
                     password |-> password, token |-> token,
                     token_type |-> token_type, raised |-> r.raised]
  /\ UNCHANGED <<builders, bound, access, callerHeaders, pc, call, log, wire, conn,
                 result, cen>>

\* What one access does to chain c, given the accumulator b it reaches and
\* the outcome r of __getattr__ on it. bound[c] is the value of the chained
\* expression when that is a bound call.
Chained(c, b, key, style, r) ==
  /\ builders' =
       [builders EXCEPT ![c] =
          IF r.outcome = "builder"
          THEN [b EXCEPT !.url = r.url, !.segs = Append(b.segs, [key |-> key, style |-> style])]
          ELSE b]
  /\ bound' =
       [bound EXCEPT ![c] =
          IF r.outcome = "bound"
          THEN [set |-> TRUE, client |-> b.client, verb |-> r.verb, url |-> r.url,
                segs |-> b.segs]
          ELSE NoBound]
  /\ access' = [chain |-> c, key |-> key, style |-> style, outcome |-> r.outcome,
                before |-> b.url, segs |-> b.segs]

\* The chain's value stops being the accumulator: the access yielded one of
\* the object's own attributes, or raised.
Lost(c, b, key, style, outcome) ==
  /\ builders' =
       [builders EXCEPT ![c] =
          [b EXCEPT !.state = "lost", !.segs = Append(b.segs, [key |-> key, style |-> style])]]
  /\ access' = [chain |-> c, key |-> key, style |-> style, outcome |-> outcome,
                before |-> b.url, segs |-> b.segs]
  /\ bound' = [bound EXCEPT ![c] = NoBound]

\* The caller's next statement begins: what was observed of the last verb
\* call (ghost state, read by no code) is dropped.
NewStatement ==
  /\ call' = NoCall
  /\ log' = NoLog
  /\ wire' = NoWire
  /\ conn' = NoConn
  /\ result' = NoResult

\* restclient.<key>: RestClient.__getattr__, reached only for a name that is
\* no attribute of the facade. It starts chain c on a new RequestBuilder.
FacadeGetAttr(c, k, key) ==
  /\ pc = "idle"
  /\ clients[k].made
  /\ key.t = "str"
  /\ LET fresh == RequestBuilderInit(k)
     IN  IF key.s \in FacadeFields
         THEN Lost(c, fresh, key, "attr", "field")
         ELSE Chained(c, fresh, key, "attr", BuilderGetattr(fresh.url, key))
  /\ NewStatement
  /\ UNCHANGED <<clients, ctor, callerHeaders, pc, cen>>

\* restclient[key]: RestClient defines no __getitem__, so this is a TypeError.
FacadeGetItem(c, k, key) ==
  /\ pc = "idle"
  /\ clients[k].made
  /\ Lost(c, RequestBuilderInit(k), key, "item", "TypeError")
  /\ NewStatement
  /\ UNCHANGED <<clients, ctor, callerHeaders, pc, cen>>

\* builder.<key>: the attribute when the accumulator has one of that name,
\* else RequestBuilder.__getattr__(key). (The caller holds an accumulator
\* only once an access has returned it, with a segment in its path: the one
\* a verb access on the facade makes is never handed out.)
BuilderGetAttr(c, key) ==
  /\ pc = "idle"
  /\ builders[c].state = "building"
  /\ Len(builders[c].segs) >= 1
  /\ key.t = "str"
  /\ VerbCondition(key) \/ Len(builders[c].segs) < MaxSegs
  /\ IF key.s \in BuilderFields
     THEN Lost(c, builders[c], key, "attr", "field")
     ELSE Chained(c, builders[c], key, "attr", BuilderGetattr(builders[c].url, key))
  /\ UNCHANGED <<clients, ctor, callerHeaders, pc, call, log, wire, conn, result, cen>>

\* builder[key]: __getitem__ = __getattr__, called with the key as given.
BuilderGetItem(c, key) ==
  /\ pc = "idle"
  /\ builders[c].state = "building"
  /\ Len(builders[c].segs) >= 1
  /\ VerbCondition(key) \/ Len(builders[c].segs) < MaxSegs
  /\ Chained(c, builders[c], key, "item", BuilderGetattr(builders[c].url, key))
  /\ UNCHANGED <<clients, ctor, callerHeaders, pc, call, log, wire, conn, result, cen>>

\* A verb asked of a chain whose value is no accumulator but the attribute
\* the last access found: the text of self.url has no such attribute, and
\* the Client of self.client has its verb methods, bound to no path. (After
\* the TypeError of an indexed access on the facade there is no value.)
LostVerb(c, key) ==
  /\ pc = "idle"
  /\ builders[c].state = "lost"
  /\ VerbCondition(key)
  /\ LET last == builders[c].segs[Len(builders[c].segs)]
     IN  /\ last.style = "attr"
         /\ access' = [chain |-> c, key |-> key, style |-> "attr",
                       outcome |-> IF /\ last.key.s = <<"c", "l", "i", "e", "n", "t">>
                                      /\ PyStr(key) \in ClientVerbMethods
                                   THEN "unbound"
                                   ELSE "AttributeError",
                       before |-> builders[c].url, segs |-> builders[c].segs]
  /\ UNCHANGED <<clients, ctor, builders, bound, callerHeaders, pc, call, log, wire,
                 conn, result, cen>>

\* A verb method of client k entered with these arguments: Client.<name>
\* and Client.request as far as the Request object of get_connection. (get
\* and head have no body parameter; they are called without one.)
Enter(c, k, name, url, segs, headersArg, body, params) ==
  LET self == clients[k]
      headers == IF headersArg = "caller" THEN DictV(callerHeaders) ELSE NoneV
      a == VerbRequestArgs(self, name, url, headers, body, params)
      p == RequestPrep(self, a.method, a.url, a.body, a.headers, a.content_type)
  IN  /\ name \in {<<"g", "e", "t">>, <<"h", "e", "a", "d">>} => IsNone(body)
      /\ call' = [chain |-> c, client |-> k, name |-> name, method |-> a.method,
                  path |-> url, url |-> a.url, body |-> a.body, headersIn |-> headers,
                  content_type |-> a.content_type, segs |-> segs]
      /\ log' = p.log
      /\ wire' = p.request
      /\ callerHeaders' = IF headersArg = "caller" THEN p.headers ELSE callerHeaders
      /\ conn' = NoConn
      /\ result' = NoResult
      /\ pc' = "opening"

\* The bound call of chain c called: partial(mfun, url=self.url)(...). The
\* chain ends here: its accumulator and the bound call are dropped.
Invoke(c, headersArg, body, params) ==
  /\ pc = "idle"
  /\ bound[c].set
  /\ Enter(c, bound[c].client, bound[c].verb, bound[c].url, bound[c].segs,
           headersArg, body, params)
  /\ builders' = [builders EXCEPT ![c] = NoBuilder]
  /\ bound' = [bound EXCEPT ![c] = NoBound]
  /\ access' = NoAccess
  /\ UNCHANGED <<clients, ctor, cen>>

\* client.<name>(url, ...) called on the Client itself, between chains.
DirectCall(k, name, url, headersArg, body, params) ==
  /\ pc = "idle"
  /\ clients[k].made
  /\ \A c \in Chains : builders[c].state = "none"
  /\ Enter(0, k, name, url, <<>>, headersArg, body, params)
  /\ UNCHANGED <<clients, ctor, builders, bound, access, cen>>

\* self.opener.open(request): the transport yields a connection, or raises
\* (URLError, HTTPError) and the exception leaves the verb call.
Open(ok) ==
  /\ pc = "opening"
  /\ conn' = [conn EXCEPT !.open = ok, !.attempts = conn.attempts + 1,
                          !.opener = IF ok THEN "connected" ELSE "raised"]
  /\ pc' = IF ok THEN "connected" ELSE "idle"
  /\ result' = IF ok THEN result
               ELSE [kind |-> "raise", status |-> 0, pybody |-> NoneV,
                     exc |-> "TransportError"]
  /\ UNCHANGED <<clients, ctor, builders, bound, access, callerHeaders, call, log,
                 wire, cen>>

\* The with block of Client.request on the response, and its exit.
Complete(response) ==
  /\ pc = "connected"
  /\ LET outcome == WithBlock(call.method, response)
     IN  /\ result' = outcome
         /\ conn' = [conn EXCEPT !.open = OpenAfterWith(outcome), !.response = response]
  /\ pc' = "idle"
  /\ UNCHANGED <<clients, ctor, builders, bound, access, callerHeaders, call, log,
                 wire, cen>>

\* Client.censor_request(secrets, payload) on the inputs drawn at the start.
Censor ==
  /\ ~cen.done
  /\ LET r == CensorRequest(cen.secrets, cen.payload)
     IN  cen' = [cen EXCEPT !.done = TRUE, !.raised = r.raised, !.result = r.result,
                            !.after = r.payload]
  /\ UNCHANGED <<clients, ctor, builders, bound, access, callerHeaders, pc, call,
                 log, wire, conn, result>>

\* -------------------------------------------------------------- inputs

BaseUrls == {<<"h", "t", "t", "p", ":", "/", "/", "h">>, <<"h", "t", "t", "p", ":", "/", "/", "h", "/">>}

\* Names asked of a chain: plain segments, an integer index, the names of
\* the accumulator's own attributes, a verb in capitals, the six verbs as
\* the methods spell them, and verbs in mixed case.
SegmentKeys == {StrV(<<"a">>), IntV(1), StrV(<<"u", "r", "l">>), StrV(<<"G", "E", "T">>)}

VerbKeys ==
  {StrV(<<"g", "e", "t">>), StrV(<<"h", "e", "a", "d">>), StrV(<<"d", "e", "l", "e", "t", "e">>), StrV(<<"p", "o", "s", "t">>), StrV(<<"p", "u", "t">>),
   StrV(<<"p", "a", "t", "c", "h">>), StrV(<<"G", "e", "t">>), StrV(<<"p", "O", "S", "T">>)}

Keys == SegmentKeys \cup VerbKeys

ParamSets == {<<>>, << <<<<"s", "t", "a", "t", "e">>, <<"o", "p", "e", "n">>>> >>}

\* Paths handed to a verb method of the Client itself.
DirectPaths == {<<>>, <<"x">>, <<"/", "x">>}

OkResponse ==
  [code |-> 200, headers |-> << <<<<"X">>, StrV(<<"y">>)>> >>, readable |-> TRUE,
   bytes |-> Utf8Encode(<<"{", "}">>)]

TokenClient(url, append_slash) ==
  ClientInit(url, NoneV, NoneV, StrV(<<"a", "b", "c">>), <<"T", "o", "k", "e", "n">>, NoneV, append_slash).self

InitCommon ==
  /\ ctor = NoCtor
  /\ builders = [c \in Chains |-> NoBuilder]
  /\ bound = [c \in Chains |-> NoBound]
  /\ access = NoAccess
  /\ pc = "idle"
  /\ call = NoCall
  /\ log = NoLog
  /\ wire = NoWire
  /\ conn = NoConn
  /\ result = NoResult

\* ------------------------------------- the facade, the chain, the call

Init ==
  /\ InitCommon
  /\ \E url \in BaseUrls, append_slash \in BOOLEAN :
       clients = [k \in ClientIds |-> IF k = 1 THEN TokenClient(url, append_slash)
                                      ELSE NoClient]
  /\ callerHeaders = <<>>
  /\ cen = NoCen

Next ==
  \/ \E key \in Keys : FacadeGetAttr(1, 1, key)
  \/ \E key \in Keys : FacadeGetItem(1, 1, key)
  \/ \E key \in Keys : BuilderGetAttr(1, key)
  \/ \E key \in Keys : BuilderGetItem(1, key)
  \/ \E key \in VerbKeys : LostVerb(1, key)
  \/ \E params \in ParamSets : Invoke(1, "none", NoneV, params)
  \/ \E url \in DirectPaths : DirectCall(1, <<"g", "e", "t">>, url, "none", NoneV, <<>>)
  \/ \E ok \in BOOLEAN : Open(ok)
  \/ Complete(OkResponse)

Spec == Init /\ [][Next]_vars

\* ------------------------------------------- construction and the header

Usernames == {NoneV, StrV(<<"u">>)}

Passwords == {NoneV, StrV(<<"p">>)}

Tokens == {NoneV, StrV(<<"t">>)}

TokenTypes == {<<"T", "o", "k", "e", "n">>, <<"B", "e", "a", "r", "e", "r">>}

UserAgents == {NoneV, StrV(<<"u", "a">>)}

\* What the caller's own headers mapping holds at the start.
CallerHeaderInits ==
  {<<>>,
   << <<HdrXAuthToken, StrV(<<"t", "o", "k">>)>> >>,
   << <<HdrAuthorization, StrV(<<"m", "i", "n", "e">>)>>, <<HdrContentType, StrV(<<"t", "e", "x", "t", "/", "p", "l", "a", "i", "n">>)>> >>}

InitAuth ==
  /\ InitCommon
  /\ clients = [k \in ClientIds |-> NoClient]
  /\ callerHeaders \in CallerHeaderInits
  /\ cen = NoCen

NextAuth ==
  \/ \E username \in Usernames, password \in Passwords, token \in Tokens,
        token_type \in TokenTypes, user_agent \in UserAgents :
       Construct(1, <<"h", "t", "t", "p", ":", "/", "/", "h">>, username, password, token, token_type, user_agent,
                 FALSE)
  \/ FacadeGetAttr(1, 1, StrV(<<"a">>))
  \/ \E key \in {StrV(<<"g", "e", "t">>), StrV(<<"p", "o", "s", "t">>)} : BuilderGetAttr(1, key)
  \/ \E headersArg \in {"none", "caller"} : Invoke(1, headersArg, NoneV, <<>>)
  \/ \E ok \in BOOLEAN : Open(ok)
  \/ Complete(OkResponse)

SpecAuth == InitAuth /\ [][NextAuth]_vars

\* ------------------------------------------------- the request itself

Bodies ==
  {NoneV,
   StrV(<<"{", "\"", "p", "a", "s", "s", "w", "o", "r", "d", "\"", ":", " ", "\"", "x", "\"", "}">>),
   DictV(<< <<<<"t", "i", "t", "l", "e">>, StrV(<<"t">>)>>, <<KeyPassword, StrV(<<"s", "e", "c", "r", "e", "t">>)>> >>),
   DictV(<< <<<<"t", "i", "t", "l", "e">>, StrV(<<"t">>)>> >>),
   ListV(<<StrV(KeyPassword)>>),
   IntV(5)}

\* What the server answers: a status, headers, and bytes that may fail to
\* arrive (readable is FALSE) or to decode.
ResponseBytes ==
  {Utf8Encode(<<"{", "\"", "a", "\"", ":", " ", "1", "}">>), Utf8Encode(<<"[", "1", "]">>), Utf8Encode(<<"\"", "a", "\"">>),
   Utf8Encode(<<"4", "2">>), Utf8Encode(<<"t", "r", "u", "e">>), Utf8Encode(<<"n", "u", "l", "l">>),
   Utf8Encode(<<"o", "o", "p", "s">>), <<>>, <<255>>}

Responses ==
  {[code |-> 200, headers |-> << <<<<"X">>, StrV(<<"y">>)>> >>, readable |-> TRUE, bytes |-> b] :
     b \in ResponseBytes}
  \cup {[code |-> 200, headers |-> << <<<<"X">>, StrV(<<"y">>)>> >>, readable |-> FALSE,
         bytes |-> <<>>]}

InitRequest ==
  /\ InitCommon
  /\ clients = [k \in ClientIds |-> IF k = 1 THEN TokenClient(<<"h", "t", "t", "p", ":", "/", "/", "h">>, FALSE)
                                    ELSE NoClient]
  /\ callerHeaders \in CallerHeaderInits
  /\ cen = NoCen

NextRequest ==
  \/ FacadeGetAttr(1, 1, StrV(<<"i", "s", "s", "u", "e", "s">>))
  \/ \E key \in {StrV(k) : k \in ClientVerbMethods} : BuilderGetAttr(1, key)
  \/ \E headersArg \in {"none", "caller"}, body \in Bodies :
       Invoke(1, headersArg, body, <<>>)
  \/ \E ok \in BOOLEAN : Open(ok)
  \/ \E response \in Responses : Complete(response)

SpecRequest == InitRequest /\ [][NextRequest]_vars

\* ------------------------------------------------ censor_request alone

SecretLists ==
  {<<>>, <<KeyPassword>>, <<HdrAuthorization, HdrXAuthToken>>,
   <<KeyPassword, <<"o", "t", "h", "e", "r">>>>, <<<<"p">>>>}

Payloads ==
  {DictV(<< <<KeyPassword, StrV(<<"x">>)>>, <<<<"o", "t", "h", "e", "r">>, StrV(<<"y">>)>> >>),
   DictV(<< <<<<"o", "t", "h", "e", "r">>, StrV(<<"y">>)>>, <<KeyPassword, StrV(<<"x">>)>> >>),
   DictV(<< <<<<"o", "t", "h", "e", "r">>, StrV(<<"y">>)>> >>),
   DictV(<< <<KeyPassword, DictV(<< <<KeyPassword, StrV(<<"x">>)>> >>)>> >>),
   DictV(<< <<<<"n">>, DictV(<< <<KeyPassword, StrV(<<"x">>)>> >>)>> >>),
   DictV(<< <<HdrAuthorization, StrV(<<"T", "o", "k", "e", "n", " ", "a", "b", "c">>)>>, <<HdrUserAgent, StrV(<<"u", "a">>)>> >>),
   DictV(<<>>),
   ListV(<<StrV(KeyPassword)>>),
   ListV(<<StrV(KeyPassword), StrV(<<"o", "t", "h", "e", "r">>)>>),
   ListV(<<StrV(KeyPassword), DictV(<<>>)>>),
   ListV(<<>>),
   StrV(KeyPassword),
   StrV(<<"p">>),
   IntV(5),
   BoolV(TRUE),
   NoneV}

InitCensor ==
  /\ InitCommon
  /\ clients = [k \in ClientIds |-> NoClient]
  /\ callerHeaders = <<>>
  /\ \E secrets \in SecretLists, payload \in Payloads :
       cen = [done |-> FALSE, raised |-> FALSE, secrets |-> secrets,
              payload |-> payload, result |-> NoneV, after |-> payload]

NextCensor == Censor

SpecCensor == InitCensor /\ [][NextCensor]_vars

\* ------------------------------------ two chains on one shared client

\* Names asked of the two chains: a plain segment, an integer index, the
\* name of the attribute that facade and accumulator both have, and a verb.
ChainKeys ==
  {StrV(<<"a">>), IntV(1), StrV(<<"c", "l", "i", "e", "n", "t">>), StrV(<<"g", "e", "t">>)}

InitChains ==
  /\ InitCommon
  /\ clients = [k \in ClientIds |-> IF k = 1 THEN TokenClient(<<"h", "t", "t", "p", ":", "/", "/", "h">>, FALSE)
                                    ELSE NoClient]
  /\ callerHeaders = <<>>
  /\ cen = NoCen

\* The statements of a caller that holds two chained expressions at once
\* and goes on with either of them in any order.
NextChains ==
  \/ \E c \in Chains, key \in ChainKeys : FacadeGetAttr(c, 1, key)
  \/ \E c \in Chains, key \in ChainKeys : BuilderGetAttr(c, key)
  \/ \E c \in Chains, key \in ChainKeys : BuilderGetItem(c, key)
  \/ \E c \in Chains : LostVerb(c, StrV(<<"g", "e", "t">>))
  \/ \E c \in Chains : Invoke(c, "none", NoneV, <<>>)
  \/ \E ok \in BOOLEAN : Open(ok)
  \/ Complete(OkResponse)

SpecChains == InitChains /\ [][NextChains]_vars

\* ------------------------- one headers mapping passed to several calls

\* What the caller's headers mapping holds when the caller made it.
CallerOwnHeaders == << <<<<"A", "c", "c", "e", "p", "t">>, StrV(<<"t", "e", "x", "t", "/", "p", "l", "a", "i", "n">>)>> >>

\* Client 1 is constructed with a token, client 2 for another host and with
\* no credentials.
InitHeaders ==
  /\ InitCommon
  /\ clients = [k \in ClientIds |->
                  IF k = 1 THEN TokenClient(<<"h", "t", "t", "p", ":", "/", "/", "h">>, FALSE)
                  ELSE ClientInit(<<"h", "t", "t", "p", ":", "/", "/", "o">>, NoneV, NoneV, NoneV, <<"T", "o", "k", "e", "n">>, NoneV, FALSE).self]
  /\ callerHeaders = CallerOwnHeaders
  /\ cen = NoCen

\* Calls on either client, each with the caller's mapping or with none.
NextHeaders ==
  \/ \E k \in ClientIds : FacadeGetAttr(1, k, StrV(<<"a">>))
  \/ \E key \in {StrV(<<"g", "e", "t">>), StrV(<<"p", "o", "s", "t">>)} : BuilderGetAttr(1, key)
  \/ \E headersArg \in {"none", "caller"}, body \in {NoneV, DictV(<< <<<<"t", "i", "t", "l", "e">>, StrV(<<"t">>)>> >>)} :
       Invoke(1, headersArg, body, <<>>)
  \/ \E ok \in BOOLEAN : Open(ok)
  \/ Complete(OkResponse)

SpecHeaders == InitHeaders /\ [][NextHeaders]_vars

\* -------------------------------------------------------------- claims

StripTrailingSlash(s) == IF EndsWithSlash(s) THEN SubSeq(s, 1, Len(s) - 1) ELSE s

StripLeadingSlash(s) == IF StartsWithSlash(s) THEN Tail(s) ELSE s

\* The keys of the segments asked of a chain, as text joined by "/".
RECURSIVE JoinSegs(_)
JoinSegs(segs) ==
  IF Len(segs) = 0 THEN <<>>
  ELSE PyStr(segs[1].key)
       \o (IF Len(segs) > 1 THEN <<"/">> \o JoinSegs(Tail(segs)) ELSE <<>>)

\* C1: the URL of every Request handed to the opener is the base URL and the
\* relative URL with exactly one "/" between them: the base without its
\* trailing slash, one slash, the relative URL without its leading slash.
C1_ExactlyOneSlash ==
  wire # NoWire =>
    wire.full_url = StripTrailingSlash(clients[call.client].url) \o <<"/">>
                    \o StripLeadingSlash(call.url)

\* C2: an access on an accumulator with a name that is one of the six verbs
\* in any case and has a lowercase character yields a bound call for that
\* verb on the accumulated path; it does not fail and appends nothing.
C2_VerbNameDispatches ==
  (/\ access.chain # 0
   /\ VerbCondition(access.key)
   /\ builders[access.chain].state = "building") =>
    /\ access.outcome = "bound"
    /\ bound[access.chain].set
    /\ Upper(bound[access.chain].verb) = Upper(PyStr(access.key))
    /\ bound[access.chain].url = access.before
    /\ builders[access.chain].url = access.before

\* C5: after N >= 1 segment accesses, whatever their style, a verb access
\* yields a bound call, and the call is made, on the N segments in order
\* joined by "/". Stated in the claim's favour: only for chains that begin
\* with attribute-style access on the facade, and allowing the separator
\* that the accumulator puts before the first segment.
C5_PathIsSegmentsJoined ==
  /\ (/\ access.chain # 0
      /\ PyStr(access.key) \in ClientVerbMethods
      /\ Len(access.segs) >= 1
      /\ access.segs[1].style = "attr") =>
       /\ access.outcome = "bound"
       /\ bound[access.chain].url \in {JoinSegs(access.segs), <<"/">> \o JoinSegs(access.segs)}
  /\ (call.chain # 0 /\ Len(call.segs) >= 1) =>
       call.path \in {JoinSegs(call.segs), <<"/">> \o JoinSegs(call.segs)}

\* The value a headers mapping (the pairs of a dict) holds under a name, or
\* None.
HeaderOf(pairs, name) == IF DictHas(pairs, name) THEN DictGet(pairs, name) ELSE NoneV

\* The headers mapping a verb call was given, as pairs (none when it got None).
GivenHeaders == IF IsNone(call.headersIn) THEN <<>> ELSE call.headersIn.d

\* C3: when the transport call succeeds and the response text arrives, a
\* HEAD call returns (status, response headers) and any other call returns
\* (status, parsed JSON value) when the text is valid JSON, whatever the kind
\* of value, and (status, text) otherwise; it does not raise.
C3_ResponseDecoding ==
  (/\ pc = "idle"
   /\ conn.opener = "connected"
   /\ conn.response.readable
   /\ Utf8Decode(conn.response.bytes).ok) =>
    LET text == Utf8Decode(conn.response.bytes).text
        expected == IF call.method = HEAD THEN [t |-> "headers", h |-> conn.response.headers]
                    ELSE IF JsonLoads(text).ok THEN JsonLoads(text).v
                    ELSE StrV(text)
    IN  /\ result.kind = "return"
        /\ result.status = conn.response.code
        /\ result.pybody = expected

\* C4: construction fails, and yields no client, with a username and neither
\* password nor token, and whenever both a password and a token are given;
\* with a username and exactly one of the two it succeeds.
C4_ConstructionRejects ==
  ctor.done =>
    /\ (\/ ~IsNone(ctor.username) /\ IsNone(ctor.password) /\ IsNone(ctor.token)
        \/ ~IsNone(ctor.password) /\ ~IsNone(ctor.token)) =>
         (ctor.raised /\ ~clients[ctor.k].made)
    /\ (~IsNone(ctor.username) /\ (IsNone(ctor.password) # IsNone(ctor.token))) =>
         (~ctor.raised /\ clients[ctor.k].made)

\* C6: for a structured body, the bytes sent are the JSON text of the body
\* as the caller gave it and the headers sent hold the real values, while
\* the log record holds the placeholder for 'password' in the body and for
\* 'Authorization' and 'X-Auth-Token' in the headers, and nothing else is
\* changed in it.
C6_WireWholeLogCensored ==
  (wire # NoWire /\ ~IsNone(call.body) /\ call.body.t # "str") =>
    /\ wire.data = [t |-> "bytes", y |-> Utf8Encode(JsonDumps(call.body))]
    /\ HeaderOf(wire.headers, HdrAuthorization) = clients[call.client].auth_header
    /\ DictHas(GivenHeaders, HdrXAuthToken) =>
         HeaderOf(wire.headers, HdrXAuthToken) = HeaderOf(GivenHeaders, HdrXAuthToken)
    /\ log.headers.t = "dict"
    /\ Len(log.headers.d) = Len(wire.headers)
    /\ \A i \in 1..Len(wire.headers) :
         /\ log.headers.d[i][1] = wire.headers[i][1]
         /\ log.headers.d[i][2] =
              IF wire.headers[i][1] \in {HdrAuthorization, HdrXAuthToken}
              THEN StrV(CENSORED_MESSAGE)
              ELSE wire.headers[i][2]
    /\ IF call.body.t = "dict"
       THEN /\ log.body.t = "dict"
            /\ Len(log.body.d) = Len(call.body.d)
            /\ \A i \in 1..Len(call.body.d) :
                 /\ log.body.d[i][1] = call.body.d[i][1]
                 /\ log.body.d[i][2] =
                      IF call.body.d[i][1] = KeyPassword
                      THEN StrV(CENSORED_MESSAGE)
                      ELSE call.body.d[i][2]
       ELSE log.body = call.body

\* A call whose body holds a password, with a token client and the caller's
\* X-Auth-Token: the secret is in the bytes sent and not in the log record.
C6_Witness ==
  /\ wire.data = [t |-> "bytes", y |-> Utf8Encode(<<"{", "\"", "t", "i", "t", "l", "e", "\"", ":", " ", "\"", "t", "\"", ",", " ", "\"", "p", "a", "s", "s", "w", "o", "r", "d", "\"", ":", " ", "\"", "s", "e", "c", "r", "e", "t", "\"", "}">>)]
  /\ HeaderOf(wire.headers, HdrAuthorization) = StrV(<<"T", "o", "k", "e", "n", " ", "a", "b", "c">>)
  /\ HeaderOf(wire.headers, HdrXAuthToken) = StrV(<<"t", "o", "k">>)
  /\ log.body = DictV(<< <<<<"t", "i", "t", "l", "e">>, StrV(<<"t">>)>>, <<KeyPassword, StrV(CENSORED_MESSAGE)>> >>)
  /\ HeaderOf(log.headers.d, HdrAuthorization) = StrV(CENSORED_MESSAGE)
  /\ HeaderOf(log.headers.d, HdrXAuthToken) = StrV(CENSORED_MESSAGE)

\* C7: censor_request on a mapping returns a copy with the same keys in which
\* the top-level keys that are secrets hold the placeholder and every other
\* key holds its value; on anything else it returns the payload as it is. It
\* never raises and never changes the payload it was given.
C7_CensorRequest ==
  cen.done =>
    /\ ~cen.raised
    /\ cen.after = cen.payload
    /\ IF cen.payload.t = "dict"
       THEN /\ cen.result.t = "dict"
            /\ Len(cen.result.d) = Len(cen.payload.d)
            /\ \A i \in 1..Len(cen.payload.d) :
                 /\ cen.result.d[i][1] = cen.payload.d[i][1]
                 /\ cen.result.d[i][2] =
                      IF \E j \in 1..Len(cen.secrets) : cen.secrets[j] = cen.payload.d[i][1]
                      THEN StrV(CENSORED_MESSAGE)
                      ELSE cen.payload.d[i][2]
       ELSE cen.result = cen.payload

\* censor(['password'], {'password': 'x', 'other': 'y'}) has been computed.
C7_Witness ==
  /\ cen.done
  /\ cen.secrets = <<KeyPassword>>
  /\ cen.payload = DictV(<< <<KeyPassword, StrV(<<"x">>)>>, <<<<"o", "t", "h", "e", "r">>, StrV(<<"y">>)>> >>)
  /\ cen.result = DictV(<< <<KeyPassword, StrV(CENSORED_MESSAGE)>>, <<<<"o", "t", "h", "e", "r">>, StrV(<<"y">>)>> >>)

\* C8: the Authorization header of every request is 'Basic ' and the base64
\* of 'username:password' for a client constructed with a password, the
\* token type, a blank and the token for one constructed with a token, and
\* whatever the caller's headers held for one constructed with neither.
C8_AuthorizationHeader ==
  (wire # NoWire /\ ctor.done) =>
    LET auth == HeaderOf(wire.headers, HdrAuthorization)
    IN  /\ (~IsNone(ctor.password) /\ ~IsNone(ctor.username)) =>
             auth = StrV(<<"B", "a", "s", "i", "c", " ">> \o B64Encode(Utf8Encode(ctor.username.s \o <<":">>
                                                            \o ctor.password.s)))
        /\ ~IsNone(ctor.token) =>
             auth = StrV(ctor.token_type \o <<" ">> \o ctor.token.s)
        /\ (IsNone(ctor.password) /\ IsNone(ctor.token)) =>
             auth = HeaderOf(GivenHeaders, HdrAuthorization)

BodyMethods == {POST, PUT, PATCH, DELETE}

\* C9 as claimed: the system writes Content-Type: application/json exactly
\* when the method is POST, PUT, PATCH or DELETE and a body is supplied.
C9_ContentTypeIffBody ==
  wire # NoWire =>
    ((/\ ~IsNone(call.content_type)
      /\ HeaderOf(wire.headers, HdrContentType) = StrV(ApplicationJson))
     <=> (call.method \in BodyMethods /\ ~IsNone(call.body)))

\* C9 as amended: the system writes Content-Type: application/json exactly
\* when the method is POST, PUT, PATCH or DELETE, with or without a body; on
\* GET and HEAD it writes none, so the request holds the Content-Type of the
\* headers mapping it was given, or none.
C9_ContentTypeByMethod ==
  wire # NoWire =>
    /\ call.method \in BodyMethods =>
         (/\ ~IsNone(call.content_type)
          /\ HeaderOf(wire.headers, HdrContentType) = StrV(ApplicationJson))
    /\ call.method \notin BodyMethods =>
         (/\ IsNone(call.content_type)
          /\ HeaderOf(wire.headers, HdrContentType) = HeaderOf(GivenHeaders, HdrContentType))

\* A POST with no body and no headers of the caller's goes out with the
\* content type.
C9_Witness ==
  /\ wire.method = POST
  /\ IsNone(call.body)
  /\ IsNone(call.headersIn)
  /\ HeaderOf(wire.headers, HdrContentType) = StrV(ApplicationJson)

\* C10: a verb call asks the opener for a connection once; no connection is
\* open before that or once the call has returned or raised, however it
\* ended; and what the opener raises leaves the call as it is.
C10_OneAttemptAndReleased ==
  /\ conn.attempts <= 1
  /\ pc \in {"idle", "opening"} => ~conn.open
  /\ pc = "connected" => (conn.open /\ conn.attempts = 1)
  /\ (pc = "idle" /\ result.kind # "none") => conn.attempts = 1
  /\ conn.opener = "raised" =>
       (pc = "idle" /\ result.kind = "raise" /\ result.exc = "TransportError")

\* A call that failed while decoding the response has ended with its one
\* connection closed.
C10_Witness ==
  /\ pc = "idle"
  /\ conn.opener = "connected"
  /\ result.kind = "raise"
  /\ result.exc = "UnicodeDecodeError"
  /\ conn.attempts = 1
  /\ ~conn.open


\* The path an accumulator holds after these accesses and no others: each
\* key as text behind a "/".
OwnPath(segs) == IF Len(segs) = 0 THEN <<>> ELSE <<"/">> \o JoinSegs(segs)

\* A step of chain c: an access on it, or its bound call called.
ChainActs(c) ==
  \/ access'.chain = c /\ access' # access
  \/ pc = "idle" /\ pc' = "opening" /\ call'.chain = c

\* C11: every access on the facade starts an accumulator with the empty
\* path, so with two chains going on the path of each accumulator, of each
\* bound call and of each call made is made of that chain's own segments and
\* nothing else; a step of one chain leaves the other chain as it was; and
\* no step changes the configuration of a constructed client.
C11_ChainsIsolated ==
  /\ [](/\ \A c \in Chains :
             /\ builders[c].state = "building" =>
                  builders[c].url = OwnPath(builders[c].segs)
             /\ bound[c].set => bound[c].url = OwnPath(bound[c].segs)
        /\ call.chain # 0 => call.path = OwnPath(call.segs))
  /\ [][\A c \in Chains :
          ~ChainActs(c) => (builders'[c] = builders[c] /\ bound'[c] = bound[c])]_vars
  /\ [][\A k \in ClientIds : clients[k].made => clients'[k] = clients[k]]_vars

\* Chain 1 asked for a and chain 2 for a and then [1], in turns; the call of
\* chain 1 went out on /a while chain 2 holds /a/1.
C11_Witness ==
  /\ call.chain = 1
  /\ call.path = <<"/", "a">>
  /\ wire.full_url = <<"h", "t", "t", "p", ":", "/", "/", "h", "/", "a">>
  /\ builders[2].state = "building"
  /\ builders[2].url = <<"/", "a", "/", "1">>


\* The same names were asked, in the same order, in whatever style.
SameKeys(s1, s2) ==
  /\ Len(s1) = Len(s2)
  /\ \A i \in 1..Len(s1) : PyStr(s1[i].key) = PyStr(s2[i].key)

\* C12: attribute-style and indexed access with a name are the same
\* operation on an accumulator: two chains asked the same names in order,
\* each name in either style, are in the same state with the same path, and
\* the bound calls they yield are for the same verb on the same path. This
\* for every name, those of the accumulator's own attributes included.
C12_StylesAgree ==
  \A c, d \in Chains :
    /\ (/\ builders[c].state # "none"
        /\ builders[d].state # "none"
        /\ SameKeys(builders[c].segs, builders[d].segs)) =>
         /\ builders[c].state = builders[d].state
         /\ builders[c].url = builders[d].url
    /\ (/\ bound[c].set
        /\ bound[d].set
        /\ SameKeys(bound[c].segs, bound[d].segs)) =>
         /\ bound[c].url = bound[d].url
         /\ bound[c].verb = bound[d].verb


\* C13: an access with a name that does not meet the verb condition, a verb
\* in capitals and any other name, appends "/" and the name to the path and
\* yields the same accumulator; no request is made. Stated for accesses that
\* reach an accumulator (indexed access on the facade itself is left out).
C13_NonVerbAppended ==
  (/\ access.chain # 0
   /\ ~VerbCondition(access.key)
   /\ access.style = "attr" \/ Len(access.segs) >= 1) =>
    /\ access.outcome = "builder"
    /\ builders[access.chain].state = "building"
    /\ builders[access.chain].url = access.before \o <<"/">> \o PyStr(access.key)
    /\ ~bound[access.chain].set
    /\ pc = "idle"
    /\ wire = NoWire


\* C14: a verb call leaves the headers mapping it was given as the caller
\* made it, and what a call sends holds a Content-Type only when the call
\* itself has one and an Authorization only when its client has one: nothing
\* an earlier call added.
C14_CallerHeadersKept ==
  /\ callerHeaders = CallerOwnHeaders
  /\ wire # NoWire =>
       /\ IsNone(call.content_type) => ~DictHas(wire.headers, HdrContentType)
       /\ IsNone(clients[call.client].auth_header) =>
            ~DictHas(wire.headers, HdrAuthorization)

====
